---- MODULE Spec2Model ----
(***************************************************************************)
(* A model of the codebase pipeline of mahitha-1310/AI-EnabledCoding:      *)
(* the two serialize/parse protocols (codebase_pipeline.py: inline         *)
(* markers; pipeline.py: begin/end delimiters), the conversation session   *)
(* of pipeline.py, and the single-shot run() of pipeline.py and of         *)
(* path/to/file.ext, over a small file system.                             *)
(*                                                                         *)
(* Python values: a str is a TLA+ string (Len, SubSeq and \o act on its    *)
(* characters), a list is a sequence, a dict is a sequence of <<key,       *)
(* value>> pairs with unique keys in insertion order, and an Optional[str] *)
(* is <<>> for None and <<s>> for the string s.                            *)
(***************************************************************************)
EXTENDS Integers, Sequences, FiniteSets, TLC

VARIABLES pc, input, output,
          conversation_history, current_codebase, disk, log_handler, ext_imports, last

vars == <<pc, input, output,
          conversation_history, current_codebase, disk, log_handler, ext_imports, last>>

(***************************************************************************)
(* str methods                                                             *)
(***************************************************************************)
Whitespace == {" ", "\t", "\n", "\r"}

CharAt(s, i) == SubSeq(s, i, i)

\* s.startswith(p)
StartsWith(s, p) == Len(s) >= Len(p) /\ SubSeq(s, 1, Len(p)) = p

\* s.endswith(p)
EndsWith(s, p) == Len(s) >= Len(p) /\ SubSeq(s, Len(s) - Len(p) + 1, Len(s)) = p

\* c in s, for a one-character c
Contains(s, c) == \E i \in 1..Len(s) : CharAt(s, i) = c

RECURSIVE LStrip(_)
LStrip(s) ==
    IF Len(s) > 0 /\ CharAt(s, 1) \in Whitespace THEN LStrip(SubSeq(s, 2, Len(s))) ELSE s

RECURSIVE RStrip(_)
RStrip(s) ==
    IF Len(s) > 0 /\ CharAt(s, Len(s)) \in Whitespace
    THEN RStrip(SubSeq(s, 1, Len(s) - 1)) ELSE s

\* s.strip()
Strip(s) == RStrip(LStrip(s))

\* s[a:-b] for a, b > 0
Slice(s, a, b) ==
    LET from == IF a < Len(s) THEN a ELSE Len(s)
        to   == IF Len(s) - b > 0 THEN Len(s) - b ELSE 0
    IN  IF from >= to THEN "" ELSE SubSeq(s, from + 1, to)

\* the index of the first c of s at or after i, or 0
RECURSIVE Find(_, _, _)
Find(s, c, i) ==
    IF i > Len(s) THEN 0
    ELSE IF CharAt(s, i) = c THEN i ELSE Find(s, c, i + 1)

\* s.split(c), for a one-character c
RECURSIVE SplitOn(_, _)
SplitOn(s, c) ==
    LET n == Find(s, c, 1)
    IN  IF n = 0 THEN <<s>>
        ELSE <<SubSeq(s, 1, n - 1)>> \o SplitOn(SubSeq(s, n + 1, Len(s)), c)

\* s.split('\n')
Split(s) == SplitOn(s, "\n")

\* '\n'.join(lines)
RECURSIVE Join(_)
Join(lines) ==
    IF Len(lines) = 0 THEN ""
    ELSE IF Len(lines) = 1 THEN lines[1]
    ELSE lines[1] \o "\n" \o Join(Tail(lines))

(***************************************************************************)
(* dict                                                                    *)
(***************************************************************************)
Keys(d) == {d[i][1] : i \in DOMAIN d}

Items(d) == {d[i] : i \in DOMAIN d}

\* d[k], for k in d
Get(d, k) == d[CHOOSE i \in DOMAIN d : d[i][1] = k][2]

\* d[k] = v: a key already present keeps its position
DictSet(d, k, v) ==
    IF k \in Keys(d)
    THEN [i \in DOMAIN d |-> IF d[i][1] = k THEN <<k, v>> ELSE d[i]]
    ELSE Append(d, <<k, v>>)

\* Optional[str]
None == <<>>
Some(s) == <<s>>
\* the truth value of an Optional[str]: None and "" are false
Truthy(o) == o # None /\ o[1] # ""

(***************************************************************************)
(* codebase_pipeline.py: the inline-marker protocol                        *)
(***************************************************************************)
\* one formatted entry of format_codebase
inline_entry(file_path, content) == "=== " \o file_path \o " ===\n" \o content \o "\n"

inline_format_codebase(codebase) ==
    Join([i \in DOMAIN codebase |-> inline_entry(codebase[i][1], codebase[i][2])])

\* line.startswith('=== ') and line.endswith(' ===')
inline_is_marker(line) == StartsWith(line, "=== ") /\ EndsWith(line, " ===")

\* inline_flush storing under the empty path as well
inline_flush_any(st) ==
    IF st.current_file # None
    THEN DictSet(st.codebase, st.current_file[1], Strip(Join(st.current_content)))
    ELSE st.codebase

\* codebase[current_file] = '\n'.join(current_content).strip(), if current_file
inline_flush(st) ==
    IF Truthy(st.current_file)
    THEN DictSet(st.codebase, st.current_file[1], Strip(Join(st.current_content)))
    ELSE st.codebase

\* inline_step with the accumulator not reset at a marker line
inline_step_no_reset(st, line) ==
    IF inline_is_marker(line)
    THEN [codebase        |-> inline_flush(st),
          current_file    |-> Some(Strip(Slice(line, 4, 4))),
          current_content |-> st.current_content]
    ELSE IF Truthy(st.current_file)
    THEN [st EXCEPT !.current_content = Append(@, line)]
    ELSE st

\* the body of the loop over the lines
inline_step(st, line) ==
    IF inline_is_marker(line)
    THEN [codebase        |-> inline_flush(st),
          current_file    |-> Some(Strip(Slice(line, 4, 4))),
          current_content |-> <<>>]
    ELSE IF Truthy(st.current_file)
    THEN [st EXCEPT !.current_content = Append(@, line)]
    ELSE st

RECURSIVE inline_loop(_, _)
inline_loop(st, lines) ==
    IF lines = <<>> THEN st ELSE inline_loop(inline_step(st, Head(lines)), Tail(lines))

\* parse_codebase_response of codebase_pipeline.py: it returns the dict alone
inline_parse_codebase_response(response) ==
    LET st == inline_loop([codebase |-> <<>>, current_file |-> None,
                           current_content |-> <<>>], Split(response))
    IN  [codebase |-> inline_flush(st)]

(***************************************************************************)
(* pipeline.py: the begin/end protocol                                     *)
(***************************************************************************)
\* A TLA+ string cannot hold the grave accent: the character ^ stands for it
\* in every text of this module (BEGIN_DELIMITER is three tildes and three
\* grave accents, END_DELIMITER the reverse).
BEGIN_DELIMITER == "~~~^^^"
END_DELIMITER == "^^^~~~"

format_entry(file_path, content) ==
    file_path \o "\n" \o BEGIN_DELIMITER \o "\n" \o content \o "\n" \o END_DELIMITER

format_codebase(codebase) ==
    Join([i \in DOMAIN codebase |-> format_entry(codebase[i][1], codebase[i][2])])

\* if current_file and current_content
parse_can_save(st) == Truthy(st.current_file) /\ st.current_content # <<>>

\* the END_DELIMITER branch
parse_end(st) ==
    IF parse_can_save(st)
    THEN [st EXCEPT !.codebase = DictSet(st.codebase, st.current_file[1],
                                         Join(st.current_content)),
                    !.current_file = None,
                    !.current_content = <<>>,
                    !.in_code_block = FALSE]
    ELSE [st EXCEPT !.in_code_block = FALSE]

\* the branch of a non-empty line outside a code block
parse_outside(st, line) ==
    IF st.current_file = None /\ Len(Strip(line)) > 0
    THEN IF Contains(Strip(line), ".") \/ Contains(Strip(line), "/")
         THEN [st EXCEPT !.current_file = Some(Strip(line))]
         ELSE [st EXCEPT !.text_response_lines = Append(@, line)]
    ELSE [st EXCEPT !.text_response_lines = Append(@, line)]

\* the body of the loop over the lines
parse_step(st, line) ==
    IF StartsWith(Strip(line), BEGIN_DELIMITER)
    THEN [st EXCEPT !.in_code_block = TRUE]
    ELSE IF StartsWith(Strip(line), END_DELIMITER)
    THEN parse_end(st)
    ELSE IF st.in_code_block
    THEN [st EXCEPT !.current_content = Append(@, line)]
    ELSE IF Strip(line) # "" /\ ~StartsWith(Strip(line), BEGIN_DELIMITER)
    THEN parse_outside(st, line)
    ELSE st

RECURSIVE parse_loop(_, _)
parse_loop(st, lines) ==
    IF lines = <<>> THEN st ELSE parse_loop(parse_step(st, Head(lines)), Tail(lines))

\* parse_codebase_response of pipeline.py: (text_response, codebase)
parse_codebase_response(response) ==
    LET st == parse_loop([codebase |-> <<>>, current_file |-> None,
                          current_content |-> <<>>, text_response_lines |-> <<>>,
                          in_code_block |-> FALSE], Split(response))
    IN  [text_response |-> Strip(Join(st.text_response_lines)),
         codebase      |-> IF parse_can_save(st)
                           THEN DictSet(st.codebase, st.current_file[1],
                                        Join(st.current_content))
                           ELSE st.codebase]

(***************************************************************************)
(* The file system, as pathlib and open() see it.  A path of the disk is   *)
(* the sequence of its components from the root directory; disk maps each  *)
(* existing path to its node.                                              *)
(***************************************************************************)
Dir == [kind |-> "dir"]
File(content) == [kind |-> "file", content |-> content]
\* a file whose bytes are not valid UTF-8
Binary == [kind |-> "binary"]

\* the working directory of the process
CWD == <<"app">>

Put(dsk, path, node) ==
    [q \in DOMAIN dsk \cup {path} |-> IF q = path THEN node ELSE dsk[q]]

IsDir(dsk, path) == path \in DOMAIN dsk /\ dsk[path].kind = "dir"

\* Path(s): whether s is absolute, and its components ('' and '.' dropped)
PurePath(s) ==
    [abs   |-> StartsWith(s, "/"),
     parts |-> SelectSeq(SplitOn(s, "/"), LAMBDA c : c \notin {"", "."})]

\* a / b
JoinPath(a, b) == IF b.abs THEN b ELSE [abs |-> a.abs, parts |-> a.parts \o b.parts]

\* the components of p from the root directory, '..' not yet followed
Lexical(p) == (IF p.abs THEN <<>> ELSE CWD) \o p.parts

\* the path the operating system reaches through the components parts
RECURSIVE Normalise(_)
Normalise(parts) ==
    IF parts = <<>> THEN <<>>
    ELSE LET front == Normalise(SubSeq(parts, 1, Len(parts) - 1))
             name  == parts[Len(parts)]
         IN  IF name = ".."
             THEN (IF front = <<>> THEN <<>> ELSE SubSeq(front, 1, Len(front) - 1))
             ELSE Append(front, name)

Locate(p) == Normalise(Lexical(p))

\* p.parent
Parent(p) ==
    IF p.parts = <<>> THEN p
    ELSE [abs |-> p.abs, parts |-> SubSeq(p.parts, 1, Len(p.parts) - 1)]

\* an event of an operation: what it did to which path
Event(kind, path) == [kind |-> kind, path |-> path]

\* p.mkdir(parents=True, exist_ok=True), from the k-th component on: every
\* missing directory on the way is created; a file on the way raises
RECURSIVE MkdirFrom(_, _, _)
MkdirFrom(dsk, parts, k) ==
    IF k > Len(parts) THEN [disk |-> dsk, raised |-> ""]
    ELSE LET at == Normalise(SubSeq(parts, 1, k))
         IN  IF at \in DOMAIN dsk
             THEN IF dsk[at].kind = "dir" THEN MkdirFrom(dsk, parts, k + 1)
                  ELSE [disk |-> dsk,
                        raised |-> IF k = Len(parts) THEN "FileExistsError"
                                   ELSE "NotADirectoryError"]
             ELSE MkdirFrom(Put(dsk, at, Dir), parts, k + 1)

MkdirParents(dsk, p) == MkdirFrom(dsk, Lexical(p), 1)

\* OpenWrite with the file opened for appending
OpenWrite_append(dsk, p, content) ==
    IF IsDir(dsk, Locate(p)) THEN [disk |-> dsk, raised |-> "IsADirectoryError"]
    ELSE [disk |-> Put(dsk, Locate(p),
                       File((IF Locate(p) \in DOMAIN dsk /\ dsk[Locate(p)].kind = "file"
                             THEN dsk[Locate(p)].content ELSE "") \o content)),
          raised |-> ""]

\* with open(p, 'w') as f: f.write(content), the parent being a directory
OpenWrite(dsk, p, content) ==
    IF IsDir(dsk, Locate(p)) THEN [disk |-> dsk, raised |-> "IsADirectoryError"]
    ELSE [disk |-> Put(dsk, Locate(p), File(content)), raised |-> ""]

(***************************************************************************)
(* write_codebase (pipeline.py and path/to/file.ext: the same code)        *)
(***************************************************************************)
\* one pass of the loop over codebase.items(), from entry i on
RECURSIVE write_entries(_, _, _, _, _)
write_entries(dsk, codebase, output_root, i, events) ==
    IF i > Len(codebase) THEN [disk |-> dsk, raised |-> "", events |-> events]
    ELSE LET full_path == JoinPath(output_root, PurePath(codebase[i][1]))
             made      == MkdirParents(dsk, Parent(full_path))
             mkdir     == Append(events, Event("mkdir", Locate(Parent(full_path))))
             written   == OpenWrite(made.disk, full_path, codebase[i][2])
             write     == Append(mkdir, Event("write", Locate(full_path)))
         IN  IF made.raised # ""
             THEN [disk |-> made.disk, raised |-> made.raised, events |-> mkdir]
             ELSE IF written.raised # ""
             THEN [disk |-> written.disk, raised |-> written.raised, events |-> write]
             ELSE write_entries(written.disk, codebase, output_root, i + 1, write)

write_codebase(dsk, codebase, output_path) ==
    LET output_root == PurePath(output_path)
        made        == MkdirParents(dsk, output_root)
        events      == <<Event("mkdir", Locate(output_root))>>
    IN  IF made.raised # ""
        THEN [disk |-> made.disk, raised |-> made.raised, events |-> events]
        ELSE write_entries(made.disk, codebase, output_root, 1, events)

(***************************************************************************)
(* collect_codebase (pipeline.py; codebase_pipeline.py has the same code)  *)
(***************************************************************************)
DEFAULT_EXTS == <<".py", ".js", ".java", ".cpp", ".c", ".ts", ".jsx", ".tsx">>
DEFAULT_DIRS == {"node_modules", ".git", "__pycache__", "venv", ".venv", "dist", "build"}

\* a set as a sequence, in an order that is fixed but not specified: the
\* order in which rglob yields what it finds
RECURSIVE InSomeOrder(_)
InSomeOrder(S) ==
    IF S = {} THEN <<>>
    ELSE LET x == CHOOSE y \in S : TRUE IN <<x>> \o InSomeOrder(S \ {x})

IsPrefix(a, b) == Len(a) <= Len(b) /\ SubSeq(b, 1, Len(a)) = a

\* root.rglob(f"*{ext}"): what lies below root and has a name ending in ext
rglob(dsk, root, ext) ==
    {q \in DOMAIN dsk :
        /\ IsDir(dsk, Locate(root))
        /\ IsPrefix(Locate(root), q) /\ Len(q) > Len(Locate(root))
        /\ EndsWith(q[Len(q)], ext)}

\* file_path.relative_to(root), as components
relative_to(root, q) == SubSeq(q, Len(Locate(root)) + 1, Len(q))

\* file_path.parts of a path rglob yields: root's own components come first
file_parts(root, q) == root.parts \o relative_to(root, q)

\* _should_include looking at the directory that holds the file only
_should_include_parent(parts) ==
    ~\E excluded \in DEFAULT_DIRS : Len(parts) > 1 /\ parts[Len(parts) - 1] = excluded

_should_include(parts) ==
    ~\E excluded \in DEFAULT_DIRS : \E i \in DOMAIN parts : parts[i] = excluded

\* str(relative_path)
RECURSIVE PathStr(_)
PathStr(parts) ==
    IF parts = <<>> THEN "."
    ELSE IF Len(parts) = 1 THEN parts[1]
    ELSE parts[1] \o "/" \o PathStr(Tail(parts))

\* the inner loop over the paths found for one extension
RECURSIVE collect_files(_, _, _, _)
collect_files(dsk, root, found, acc) ==
    IF found = <<>> THEN acc
    ELSE LET q    == Head(found)
             rest == Tail(found)
         IN  IF ~_should_include(file_parts(root, q))
             THEN collect_files(dsk, root, rest, acc)
             ELSE IF dsk[q].kind = "file"
             THEN collect_files(dsk, root, rest,
                      [codebase |-> DictSet(acc.codebase, PathStr(relative_to(root, q)),
                                            dsk[q].content),
                       events   |-> Append(acc.events, Event("read", q))])
             \* open() or read() raises: the file is skipped
             ELSE collect_files(dsk, root, rest,
                      [acc EXCEPT !.events = Append(@, Event("read", q))])

\* the outer loop over the extensions
RECURSIVE collect_exts(_, _, _, _)
collect_exts(dsk, root, exts, acc) ==
    IF exts = <<>> THEN acc
    ELSE collect_exts(dsk, root, Tail(exts),
             collect_files(dsk, root, InSomeOrder(rglob(dsk, root, Head(exts))),
                 [acc EXCEPT !.events = Append(@, Event("scan", Locate(root)))]))

\* extensions is None or Some of a list
collect_codebase(dsk, root_path, extensions) ==
    collect_exts(dsk, PurePath(root_path),
                 IF extensions = None THEN DEFAULT_EXTS ELSE extensions[1],
                 [codebase |-> <<>>, events |-> <<>>])

(***************************************************************************)
(* The chat-completion call: its outcome is the environment's choice       *)
(***************************************************************************)
SYSTEM_PROMPT ==
    "\nYou are a helpful coding assistant. Return code in the exact format requested.\n"

Message(role, content) == [role |-> role, content |-> content]

Replied(text) == [ok |-> TRUE, reply |-> text, error |-> ""]
Failed(error) == [ok |-> FALSE, reply |-> "", error |-> error]

LLMErrors == {"AuthenticationError", "APIConnectionError"}

(***************************************************************************)
(* process_with_llm and run of pipeline.py                                 *)
(***************************************************************************)
PROMPT_FORMAT ==
    "\n\nIMPORTANT: If you make any code changes, you MUST return the complete modified codebase.\n\nFormat your response as follows:\n1. First, provide a brief summary of changes\n2. If you are about to make a file, give it an appropriate and relevant filename and extension like so: ^<filename>.<extension>^\n3. Then, provide each modified file in this EXACT format:\n\n^<filename>.<extension>^\n~~~^^^\n<entire file contents here>\n^^^~~~\n\nHere is the codebase:\n\n"

\* process_with_llm sending the turns of the session before its prompt
process_with_llm_in_session(codebase, instruction, llm) ==
    LET sent == <<Message("system", SYSTEM_PROMPT)>> \o conversation_history
                    \o <<Message("user", instruction \o PROMPT_FORMAT \o format_codebase(codebase))>>
    IN  IF ~llm.ok
        THEN [raised |-> llm.error, text_response |-> "", codebase |-> <<>>, sent |-> sent]
        ELSE [raised        |-> "",
              text_response |-> parse_codebase_response(llm.reply).text_response,
              codebase      |-> parse_codebase_response(llm.reply).codebase,
              sent          |-> sent]

\* process_with_llm returning the reply as it came instead of its free text
process_with_llm_raw(codebase, instruction, llm) ==
    LET sent == <<Message("system", SYSTEM_PROMPT),
                  Message("user", instruction \o PROMPT_FORMAT \o format_codebase(codebase))>>
    IN  IF ~llm.ok
        THEN [raised |-> llm.error, text_response |-> "", codebase |-> <<>>, sent |-> sent]
        ELSE [raised        |-> "",
              text_response |-> llm.reply,
              codebase      |-> parse_codebase_response(llm.reply).codebase,
              sent          |-> sent]

\* return_code is left at its default, True, by every caller
process_with_llm(codebase, instruction, llm) ==
    LET sent == <<Message("system", SYSTEM_PROMPT),
                  Message("user", instruction \o PROMPT_FORMAT \o format_codebase(codebase))>>
    IN  IF ~llm.ok
        THEN [raised |-> llm.error, text_response |-> "", codebase |-> <<>>, sent |-> sent]
        ELSE [raised        |-> "",
              text_response |-> parse_codebase_response(llm.reply).text_response,
              codebase      |-> parse_codebase_response(llm.reply).codebase,
              sent          |-> sent]

LOG_FILE == "llm_queries.log"

\* logging.basicConfig(filename=LOG_FILE, ...) and logging.info(...): the first
\* call of the process opens the log file for appending, which creates it; every
\* call appends one record
log_query(dsk, handler, user_id, instruction) ==
    LET at     == Locate(PurePath(LOG_FILE))
        before == IF at \in DOMAIN dsk THEN dsk[at].content ELSE ""
        record == "<asctime> - User: " \o user_id \o " | Query: " \o instruction \o "\n"
    IN  [disk        |-> Put(dsk, at, File(before \o record)),
         log_handler |-> TRUE,
         events      |-> (IF handler THEN <<>> ELSE <<Event("open", at)>>)
                             \o <<Event("write", at)>>]

\* run_writes with the test of the mapping left out
run_writes_always(output_codebase) == TRUE

\* if output_codebase: the truth value of a dict
run_writes(output_codebase) == output_codebase # <<>>

\* the outcome of an operation: the disk it leaves, what it raised ("" when it
\* returned), what it returned, what it did in order, what was sent to the
\* model and the mapping that was parsed
Outcome(dsk, handler, raised, ret, events, sent, parsed) ==
    [disk |-> dsk, log_handler |-> handler, raised |-> raised, ret |-> ret,
     events |-> events, sent |-> sent, parsed |-> parsed]

\* run_pipeline calling the model a second time when the first call failed
run_pipeline_retrying(logged, instruction, input_path, output_path, extensions, llm) ==
    LET collected == collect_codebase(logged.disk, input_path, extensions)
        answer    == process_with_llm(collected.codebase, instruction, llm)
        called    == logged.events \o collected.events \o <<Event("llm", <<>>)>>
        written   == write_codebase(logged.disk, answer.codebase, output_path)
    IN  IF answer.raised # ""
        THEN Outcome(logged.disk, TRUE, answer.raised, "",
                     called \o <<Event("llm", <<>>)>>, answer.sent, <<>>)
        ELSE IF run_writes(answer.codebase)
        THEN Outcome(written.disk, TRUE, written.raised,
                     IF written.raised = "" THEN answer.text_response ELSE "",
                     called \o <<Event("write_codebase", <<>>)>> \o written.events,
                     answer.sent, answer.codebase)
        ELSE Outcome(logged.disk, TRUE, "", answer.text_response, called,
                     answer.sent, answer.codebase)

\* the part of run after the checks of its arguments
run_pipeline(logged, instruction, input_path, output_path, extensions, llm) ==
    LET collected == collect_codebase(logged.disk, input_path, extensions)
        answer    == process_with_llm(collected.codebase, instruction, llm)
        called    == logged.events \o collected.events \o <<Event("llm", <<>>)>>
        written   == write_codebase(logged.disk, answer.codebase, output_path)
    IN  IF answer.raised # ""
        THEN Outcome(logged.disk, TRUE, answer.raised, "", called, answer.sent, <<>>)
        ELSE IF run_writes(answer.codebase)
        THEN Outcome(written.disk, TRUE, written.raised,
                     IF written.raised = "" THEN answer.text_response ELSE "",
                     called \o <<Event("write_codebase", <<>>)>> \o written.events,
                     answer.sent, answer.codebase)
        ELSE Outcome(logged.disk, TRUE, "", answer.text_response, called,
                     answer.sent, answer.codebase)

\* run(instruction, user_id, input_path, output_path, extensions); the paths
\* are None or Some of a string.  BEGIN_DELIMITER and END_DELIMITER are not
\* empty, so the two checks of them never raise.
run(dsk, handler, instruction, user_id, input_path, output_path, extensions, llm) ==
    LET logged == log_query(dsk, handler, user_id, instruction)
    IN  IF input_path = None \/ output_path = None
        THEN Outcome(logged.disk, TRUE, "ValueError", "", logged.events, <<>>, <<>>)
        ELSE run_pipeline(logged, instruction, input_path[1], output_path[1],
                          extensions, llm)

(***************************************************************************)
(* process_with_llm and run of path/to/file.ext.  The file starts inside   *)
(* process_with_llm: the format_codebase and parse_codebase_response it    *)
(* calls are not in it.  Its prompt asks for the inline-marker format, so  *)
(* the serializer is taken to be the one of codebase_pipeline.py, and the  *)
(* parser, which must return a pair, the inline-marker parser as the       *)
(* specification describes it.                                             *)
(***************************************************************************)
\* the lines before the first marker line
RECURSIVE ext_free_lines(_)
ext_free_lines(lines) ==
    IF lines = <<>> \/ inline_is_marker(Head(lines)) THEN <<>>
    ELSE <<Head(lines)>> \o ext_free_lines(Tail(lines))

ext_parse_codebase_response(response) ==
    [text_response |-> Strip(Join(ext_free_lines(Split(response)))),
     codebase      |-> inline_parse_codebase_response(response).codebase]

EXT_PROMPT_FORMAT ==
    "\n\nPlease return the entire codebase in the same format, with each file clearly marked:\n=== path/to/file.ext ===\n<file contents>\n\nHere is the codebase:\n\n"

EXT_PROMPT_PLAIN == "\n\nHere is the codebase:\n\n"

ext_process_with_llm(codebase, instruction, return_code, llm) ==
    LET prompt == instruction
                    \o (IF return_code THEN EXT_PROMPT_FORMAT ELSE EXT_PROMPT_PLAIN)
                    \o inline_format_codebase(codebase)
        sent   == <<Message("system", SYSTEM_PROMPT), Message("user", prompt)>>
    IN  IF ~llm.ok
        THEN [raised |-> llm.error, text_response |-> "", codebase |-> <<>>, sent |-> sent]
        ELSE IF return_code
        THEN [raised        |-> "",
              text_response |-> ext_parse_codebase_response(llm.reply).text_response,
              codebase      |-> ext_parse_codebase_response(llm.reply).codebase,
              sent          |-> sent]
        ELSE [raised |-> "", text_response |-> llm.reply, codebase |-> <<>>, sent |-> sent]

NO_KEY_MESSAGE == "No OpenAI API Key was provided."

\* if return_code and modified_codebase
ext_run_writes(return_code, modified_codebase) == return_code /\ modified_codebase # <<>>

\* except AuthenticationError as e: whether the module binds that name is
\* decided by imports that are not in the file.  With the name bound the
\* handler catches that one exception; without it, evaluating the except clause
\* raises NameError whatever was raised in the try block.
ext_except(imports, outcome) ==
    IF outcome.raised = "" THEN outcome
    ELSE IF "AuthenticationError" \notin imports
    THEN [outcome EXCEPT !.raised = "NameError"]
    ELSE IF outcome.raised = "AuthenticationError"
    THEN [outcome EXCEPT !.raised = "", !.ret = NO_KEY_MESSAGE]
    ELSE outcome

\* the try block of run
ext_run_try(dsk, handler, input_path, output_path, instruction, extensions, return_code, llm) ==
    LET collected == collect_codebase(dsk, input_path, extensions)
        answer    == ext_process_with_llm(collected.codebase, instruction, return_code, llm)
        called    == collected.events \o <<Event("llm", <<>>)>>
        written   == write_codebase(dsk, answer.codebase, output_path)
    IN  IF answer.raised # ""
        THEN Outcome(dsk, handler, answer.raised, "", called, answer.sent, <<>>)
        ELSE IF ext_run_writes(return_code, answer.codebase)
        THEN Outcome(written.disk, handler, written.raised,
                     IF written.raised = "" THEN answer.text_response ELSE "",
                     called \o <<Event("write_codebase", <<>>)>> \o written.events,
                     answer.sent, answer.codebase)
        ELSE Outcome(dsk, handler, "", answer.text_response, called,
                     answer.sent, answer.codebase)

\* run(input_path, output_path, instruction, extensions, return_code)
ext_run(dsk, handler, imports, input_path, output_path, instruction, extensions, return_code, llm) ==
    IF input_path = None \/ output_path = None
    THEN Outcome(dsk, handler, "ValueError", "", <<>>, <<>>, <<>>)
    ELSE ext_except(imports,
             ext_run_try(dsk, handler, input_path[1], output_path[1], instruction,
                         extensions, return_code, llm))

(***************************************************************************)
(* The conversation session of pipeline.py                                 *)
(***************************************************************************)
LOAD_PREFIX == "Here is the codebase I'm working with:\n\n"

LOAD_ACK == "I've reviewed the codebase. How can I help you with it?"

\* load_codebase starting the history anew
load_codebase_fresh(dsk, history, root_path, extensions) ==
    LET collected == collect_codebase(dsk, root_path, extensions)
    IN  [current_codebase     |-> collected.codebase,
         conversation_history |->
             <<Message("user", LOAD_PREFIX \o format_codebase(collected.codebase)),
               Message("assistant", LOAD_ACK)>>,
         events |-> collected.events]

\* load_codebase without the assistant turn
load_codebase_unacknowledged(dsk, history, root_path, extensions) ==
    LET collected == collect_codebase(dsk, root_path, extensions)
    IN  [current_codebase     |-> collected.codebase,
         conversation_history |->
             Append(history,
                    Message("user", LOAD_PREFIX \o format_codebase(collected.codebase))),
         events |-> collected.events]

\* load_codebase(root_path, extensions)
load_codebase(dsk, history, root_path, extensions) ==
    LET collected == collect_codebase(dsk, root_path, extensions)
    IN  [current_codebase     |-> collected.codebase,
         conversation_history |->
             history \o <<Message("user", LOAD_PREFIX \o format_codebase(collected.codebase)),
                          Message("assistant", LOAD_ACK)>>,
         events |-> collected.events]

\* chat assigning the parsed mapping whether it is empty or not
chat_codebase_always(current, modified_codebase) == modified_codebase

\* if modified_codebase: self.current_codebase = modified_codebase
chat_codebase(current, modified_codebase) ==
    IF modified_codebase # <<>> THEN modified_codebase ELSE current

\* chat keeping the free text of the reply as the assistant turn
chat_keeping_text(history, current, message, llm) ==
    LET asked  == Append(history, Message("user", message))
        sent   == <<Message("system", SYSTEM_PROMPT)>> \o asked
        parsed == parse_codebase_response(llm.reply)
    IN  IF ~llm.ok
        THEN [raised |-> llm.error, conversation_history |-> asked,
              current_codebase |-> current, text_response |-> "",
              modified_codebase |-> <<>>, sent |-> sent]
        ELSE [raised |-> "",
              conversation_history |->
                  Append(asked, Message("assistant", parsed.text_response)),
              current_codebase |-> chat_codebase(current, parsed.codebase),
              text_response |-> parsed.text_response,
              modified_codebase |-> parsed.codebase, sent |-> sent]

\* chat(message): the user turn is appended before the call, the assistant
\* turn after it; a failed call raises out of chat
chat(history, current, message, llm) ==
    LET asked  == Append(history, Message("user", message))
        sent   == <<Message("system", SYSTEM_PROMPT)>> \o asked
        parsed == parse_codebase_response(llm.reply)
    IN  IF ~llm.ok
        THEN [raised |-> llm.error, conversation_history |-> asked,
              current_codebase |-> current, text_response |-> "",
              modified_codebase |-> <<>>, sent |-> sent]
        ELSE [raised |-> "",
              conversation_history |-> Append(asked, Message("assistant", llm.reply)),
              current_codebase |-> chat_codebase(current, parsed.codebase),
              text_response |-> parsed.text_response,
              modified_codebase |-> parsed.codebase, sent |-> sent]

\* reset_conversation clearing the history only
reset_conversation_history == [conversation_history |-> <<>>, current_codebase |-> current_codebase]

\* reset_conversation()
reset_conversation == [conversation_history |-> <<>>, current_codebase |-> <<>>]

\* save_current_codebase(output_path)
save_current_codebase(dsk, current, output_path) ==
    IF current = <<>>
    THEN [disk |-> dsk, raised |-> "", events |-> <<>>]
    ELSE write_codebase(dsk, current, output_path)

(***************************************************************************)
(* Bounded inputs of the two protocols                                     *)
(***************************************************************************)
MaxLines == 3
MaxSegments == 3
MaxFiles == 2

SeqsUpTo(S, n) == UNION {[1..k -> S] : k \in 0..n}

RECURSIVE Flatten(_)
Flatten(ss) == IF ss = <<>> THEN <<>> ELSE Head(ss) \o Flatten(Tail(ss))

\* dicts of at most MaxFiles entries: the keys of a dict are unique
Codebases(paths, contents) ==
    {cb \in SeqsUpTo(paths \X contents, MaxFiles) :
        \A i, j \in DOMAIN cb : cb[i][1] = cb[j][1] => i = j}

\* the multi-file reply of the inline-marker protocol
InlineExample ==
    "Summary: renamed function.\n=== a.py ===\ndef f(): pass\n\n=== b.py ===\ndef g(): pass"

InlineLines ==
    {"", "Summary.", " x ", "=== a.py ===", "=== b.py ===", "===  ===", "=== ===",
     "===  a.py  ==="}

InlineReplies ==
    {Join(ls) : ls \in SeqsUpTo(InlineLines, MaxLines)} \cup {InlineExample}

InlinePaths == {"a.py", "b.py", "d/c.py"}

InlineContents == {"", "x", "x\n", "  x", "x\n\ny", "=== a.py ==="}

DelimSegments ==
    {<<"">>, <<"Intro">>, <<"No code changes needed.">>,
     <<"a.py", BEGIN_DELIMITER, "x = 1", END_DELIMITER>>,
     <<"b.py", BEGIN_DELIMITER, "y", "", END_DELIMITER>>,
     <<BEGIN_DELIMITER, "junk", END_DELIMITER>>,
     <<"a.py", BEGIN_DELIMITER, END_DELIMITER>>,
     <<"b.py", BEGIN_DELIMITER, "z">>}

DelimReplies == {Join(Flatten(ss)) : ss \in SeqsUpTo(DelimSegments, MaxSegments)}

DelimPaths == {"a.py", "src/b.py", "Makefile"}

DelimContents == {"", "x", "x\n", "\n x", "  ^^^~~~", "~~~^^^python", "^^^~~~"}

(***************************************************************************)
(* The session, the process and the file system before any operation       *)
(***************************************************************************)
\* the working directory holds an input tree and an output tree
BaseDisk ==
    (<<>> :> Dir) @@ (<<"app">> :> Dir)
    @@ (<<"app", "in">> :> Dir)
    @@ (<<"app", "in", "a.py">> :> File("1"))
    @@ (<<"app", "in", "b.py">> :> File("2"))
    @@ (<<"app", "in", "bad.py">> :> Binary)
    @@ (<<"app", "in", "notes.txt">> :> File("n"))
    @@ (<<"app", "in", "build">> :> Dir)
    @@ (<<"app", "in", "build", "gen.py">> :> File("g"))
    @@ (<<"app", "out">> :> Dir)
    @@ (<<"app", "out", "a.py">> :> File("old"))
    @@ (<<"app", "out", "keep.py">> :> File("keep"))

\* the same after an earlier run has logged one query
LoggedDisk ==
    Put(BaseDisk, Locate(PurePath(LOG_FILE)), File("<asctime> - User: u0 | Query: hi\n"))

NoArgs ==
    [instruction |-> "", input_path |-> None, output_path |-> None,
     return_code |-> TRUE, codebase |-> <<>>, llm |-> Failed("")]

\* the state an operation started from
Before(dsk, history, codebase) ==
    [disk |-> dsk, conversation_history |-> history, current_codebase |-> codebase]

\* what the last operation was and did
Last(op, args, before, outcome) ==
    [op |-> op, args |-> args, before |-> before, raised |-> outcome.raised,
     ret |-> outcome.ret, events |-> outcome.events, sent |-> outcome.sent,
     parsed |-> outcome.parsed]

NoLast ==
    Last("none", NoArgs, Before(<<>>, <<>>, <<>>),
         Outcome(<<>>, FALSE, "", "", <<>>, <<>>, <<>>))

SessionInit ==
    /\ conversation_history = <<>>
    /\ current_codebase = <<>>
    /\ disk = BaseDisk
    /\ log_handler = FALSE
    /\ ext_imports = {}
    /\ last = NoLast

SessionVars ==
    <<conversation_history, current_codebase, disk, log_handler, ext_imports, last>>

(***************************************************************************)
(* SpecInline: the inline-marker protocol applied to one drawn input       *)
(***************************************************************************)
InlineInit ==
    /\ pc = "start"
    /\ input \in [kind : {"reply"}, value : InlineReplies]
                 \cup [kind : {"codebase"}, value : Codebases(InlinePaths, InlineContents)]
    /\ output = [codebase |-> <<>>]
    /\ SessionInit

\* parse_codebase_response(reply)
InlineParse ==
    /\ pc = "start"
    /\ input.kind = "reply"
    /\ output' = inline_parse_codebase_response(input.value)
    /\ pc' = "done"
    /\ UNCHANGED <<input, SessionVars>>

\* parse_codebase_response(format_codebase(codebase))
InlineRoundTrip ==
    /\ pc = "start"
    /\ input.kind = "codebase"
    /\ output' = inline_parse_codebase_response(inline_format_codebase(input.value))
    /\ pc' = "done"
    /\ UNCHANGED <<input, SessionVars>>

InlineNext == InlineParse \/ InlineRoundTrip

SpecInline == InlineInit /\ [][InlineNext]_vars

(***************************************************************************)
(* SpecDelim: the begin/end protocol applied to one drawn input            *)
(***************************************************************************)
DelimInit ==
    /\ pc = "start"
    /\ input \in [kind : {"reply"}, value : DelimReplies]
                 \cup [kind : {"codebase"}, value : Codebases(DelimPaths, DelimContents)]
    /\ output = [text_response |-> "", codebase |-> <<>>]
    /\ SessionInit

\* parse_codebase_response(reply)
DelimParse ==
    /\ pc = "start"
    /\ input.kind = "reply"
    /\ output' = parse_codebase_response(input.value)
    /\ pc' = "done"
    /\ UNCHANGED <<input, SessionVars>>

\* parse_codebase_response(format_codebase(codebase))
DelimRoundTrip ==
    /\ pc = "start"
    /\ input.kind = "codebase"
    /\ output' = parse_codebase_response(format_codebase(input.value))
    /\ pc' = "done"
    /\ UNCHANGED <<input, SessionVars>>

DelimNext == DelimParse \/ DelimRoundTrip

SpecDelim == DelimInit /\ [][DelimNext]_vars

(***************************************************************************)
(* SpecRun: one call of run or of write_codebase, in a process that is     *)
(* fresh or has logged a query before                                      *)
(***************************************************************************)
Instructions == {"do"}

InputPaths == {None, Some("in")}

OutputPaths == {None, Some("out"), Some("new/out"), Some(".")}

Block(path, content) ==
    path \o "\n" \o BEGIN_DELIMITER \o "\n" \o content \o "\n" \o END_DELIMITER

\* replies in the begin/end format
RunReplies ==
    {"No code changes needed",
     "Done\n" \o Block("x.py", "print(1)"),
     Block("a.py", "new") \o "\n" \o Block("sub/b.py", "b"),
     Block("d.py", "1") \o "\n" \o Block("d.py/x.py", "2"),
     Block("../e.py", "e"),
     Block("/abs/z.py", "z")}

\* replies in the inline-marker format
ExtReplies ==
    {"No code changes needed",
     "Done\n=== x.py ===\nprint(1)",
     "=== a.py ===\nnew\n\n=== sub/b.py ===\nb",
     "=== d ===\n1\n=== d/x.py ===\n2",
     "=== ../e.py ===\ne",
     "=== /abs/z.py ===\nz"}

Outcomes(replies) == {Replied(r) : r \in replies} \cup {Failed(e) : e \in LLMErrors}

WriteMappings ==
    {<<>>,
     << <<"x.py", "print(1)">> >>,
     << <<"a.py", "new">>, <<"sub/b.py", "b">> >>,
     << <<"d", "1">>, <<"d/x.py", "2">> >>,
     << <<"a.py", "1">>, <<"./a.py", "2">> >>,
     << <<"../e.py", "e">>, <<"sub/../f.py", "f">>, <<"/abs/z.py", "z">> >>}

RunInit ==
    /\ pc = "start"
    /\ input = <<>>
    /\ output = <<>>
    /\ conversation_history = <<>>
    /\ current_codebase = <<>>
    /\ \/ disk = BaseDisk /\ log_handler = FALSE
       \/ disk = LoggedDisk /\ log_handler \in BOOLEAN
    /\ ext_imports \in {{}, {"AuthenticationError"}}
    /\ last = NoLast

\* what an operation leaves: the disk, the logging handler, its record
Leave(op, args, outcome) ==
    /\ disk' = outcome.disk
    /\ log_handler' = outcome.log_handler
    /\ last' = Last(op, args, Before(disk, conversation_history, current_codebase),
                     outcome)

\* pipeline.run(instruction, user_id, input_path, output_path)
Run ==
    /\ pc = "start"
    /\ \E instruction \in Instructions, input_path \in InputPaths,
          output_path \in OutputPaths, llm \in Outcomes(RunReplies) :
          Leave("run",
                [NoArgs EXCEPT !.instruction = instruction, !.input_path = input_path,
                               !.output_path = output_path, !.llm = llm],
                run(disk, log_handler, instruction, "u1", input_path, output_path,
                    None, llm))
    /\ pc' = "done"
    /\ UNCHANGED <<input, output, conversation_history, current_codebase, ext_imports>>

\* run(input_path, output_path, instruction, return_code=...) of path/to/file.ext
ExtRun ==
    /\ pc = "start"
    /\ \E instruction \in Instructions, input_path \in InputPaths,
          output_path \in OutputPaths, return_code \in BOOLEAN,
          llm \in Outcomes(ExtReplies) :
          Leave("ext_run",
                [NoArgs EXCEPT !.instruction = instruction, !.input_path = input_path,
                               !.output_path = output_path, !.llm = llm,
                               !.return_code = return_code],
                ext_run(disk, log_handler, ext_imports, input_path, output_path,
                        instruction, None, return_code, llm))
    /\ pc' = "done"
    /\ UNCHANGED <<input, output, conversation_history, current_codebase, ext_imports>>

\* write_codebase(codebase, output_path)
WriteCodebase ==
    /\ pc = "start"
    /\ \E codebase \in WriteMappings, output_path \in OutputPaths \ {None} :
          LET written == write_codebase(disk, codebase, output_path[1])
          IN  Leave("write_codebase",
                    [NoArgs EXCEPT !.codebase = codebase, !.output_path = output_path],
                    Outcome(written.disk, log_handler, written.raised, "",
                            written.events, <<>>, <<>>))
    /\ pc' = "done"
    /\ UNCHANGED <<input, output, conversation_history, current_codebase, ext_imports>>

RunNext == Run \/ ExtRun \/ WriteCodebase

SpecRun == RunInit /\ [][RunNext]_vars

(***************************************************************************)
(* Spec: one session of pipeline.py, its operations called in any order    *)
(***************************************************************************)
\* the longest conversation history
MaxHistory == 4

LoadPaths == {"in"}

ChatMessages == {"do"}

ChatReplies ==
    {"No code changes needed",
     "Done\n" \o Block("b.py", "3") \o "\n" \o Block("c.py", "4")}

\* what the chat-completion call of a chat does
ChatOutcomes == {Replied(r) : r \in ChatReplies} \cup {Failed("APIConnectionError")}

SavePaths == {"out"}

\* the most calls of run in a session
MaxRuns == 1

SessionInputPaths == {Some("in")}

SessionMappings == {<< <<"b.py", "3">> >>}

Init ==
    /\ pc = "idle"
    /\ input = <<>>
    /\ output = <<>>
    /\ SessionInit

\* pipeline.load_codebase(root_path)
LoadCodebase ==
    /\ Len(conversation_history) + 2 <= MaxHistory
    /\ \E root_path \in LoadPaths :
          LET loaded == load_codebase(disk, conversation_history, root_path, None)
          IN  /\ current_codebase' = loaded.current_codebase
              /\ conversation_history' = loaded.conversation_history
              /\ Leave("load_codebase", [NoArgs EXCEPT !.input_path = Some(root_path)],
                       Outcome(disk, log_handler, "", "", loaded.events, <<>>, <<>>))
    /\ UNCHANGED <<pc, input, output, ext_imports>>

\* pipeline.chat(message)
Chat ==
    /\ Len(conversation_history) + 2 <= MaxHistory
    /\ \E message \in ChatMessages, llm \in ChatOutcomes :
          LET answered == chat(conversation_history, current_codebase, message, llm)
          IN  /\ current_codebase' = answered.current_codebase
              /\ conversation_history' = answered.conversation_history
              /\ Leave("chat", [NoArgs EXCEPT !.instruction = message, !.llm = llm],
                       Outcome(disk, log_handler, answered.raised, answered.text_response,
                               <<Event("llm", <<>>)>>, answered.sent,
                               answered.modified_codebase))
    /\ UNCHANGED <<pc, input, output, ext_imports>>

\* pipeline.reset_conversation()
ResetConversation ==
    /\ current_codebase' = reset_conversation.current_codebase
    /\ conversation_history' = reset_conversation.conversation_history
    /\ Leave("reset_conversation", NoArgs,
             Outcome(disk, log_handler, "", "", <<>>, <<>>, <<>>))
    /\ UNCHANGED <<pc, input, output, ext_imports>>

\* pipeline.save_current_codebase(output_path)
SaveCurrentCodebase ==
    /\ \E output_path \in SavePaths :
          LET saved == save_current_codebase(disk, current_codebase, output_path)
          IN  Leave("save_current_codebase", [NoArgs EXCEPT !.output_path = Some(output_path)],
                    Outcome(saved.disk, log_handler, saved.raised, "", saved.events,
                            <<>>, <<>>))
    /\ UNCHANGED <<pc, input, output, conversation_history, current_codebase, ext_imports>>

\* the records in the query log
LogRecords(dsk) ==
    IF Locate(PurePath(LOG_FILE)) \in DOMAIN dsk
    THEN Len(Split(dsk[Locate(PurePath(LOG_FILE))].content)) - 1
    ELSE 0

\* pipeline.run(instruction, user_id, input_path, output_path), at most
\* MaxRuns times
SessionRun ==
    /\ LogRecords(disk) < MaxRuns
    /\ \E instruction \in ChatMessages, input_path \in SessionInputPaths,
          llm \in ChatOutcomes :
          Leave("run",
                [NoArgs EXCEPT !.instruction = instruction, !.input_path = input_path,
                               !.output_path = Some("out"), !.llm = llm],
                run(disk, log_handler, instruction, "u1", input_path, Some("out"),
                    None, llm))
    /\ UNCHANGED <<pc, input, output, conversation_history, current_codebase, ext_imports>>

\* pipeline.write_codebase(codebase, output_path)
SessionWrite ==
    /\ \E codebase \in SessionMappings, output_path \in SavePaths :
          LET written == write_codebase(disk, codebase, output_path)
          IN  Leave("write_codebase",
                    [NoArgs EXCEPT !.codebase = codebase, !.output_path = Some(output_path)],
                    Outcome(written.disk, log_handler, written.raised, "",
                            written.events, <<>>, <<>>))
    /\ UNCHANGED <<pc, input, output, conversation_history, current_codebase, ext_imports>>

Next ==
    \/ LoadCodebase
    \/ Chat
    \/ ResetConversation
    \/ SaveCurrentCodebase
    \/ SessionRun
    \/ SessionWrite

Spec == Init /\ [][Next]_vars

(***************************************************************************)
(* SpecCollect: collect_codebase applied to one drawn tree, root and list  *)
(* of extensions                                                           *)
(***************************************************************************)
\* the most files of a drawn tree
MaxTreeFiles == 3

\* files a tree may hold, by their components below the root directory
TreeFiles ==
    {<< <<"app", "p", "a.py">>, File("1") >>,
     << <<"app", "p", "src", "b.js">>, File("2") >>,
     << <<"app", "p", "build", "gen.py">>, File("g") >>,
     << <<"app", "p", "src", "node_modules", "m.js">>, File("m") >>,
     << <<"app", "p", "src", "deep", ".git", "hooks", "x.py">>, File("h") >>,
     << <<"app", "p", "notes.txt">>, File("n") >>,
     << <<"app", "p", "bad.py">>, Binary >>,
     << <<"app", "build", "project", "c.py">>, File("c") >>,
     << <<"app", "p", "builds", "e.py">>, File("e") >>}

\* the tree that holds the files F and the directories on the way to them
Tree(F) ==
    LET dirs == {<<>>, CWD} \cup
                UNION {{SubSeq(f[1], 1, k) : k \in 0..(Len(f[1]) - 1)} : f \in F}
    IN  [q \in dirs \cup {f[1] : f \in F} |->
            IF q \in dirs THEN Dir ELSE (CHOOSE f \in F : f[1] = q)[2]]

Trees == {Tree(F) : F \in {G \in SUBSET TreeFiles : Cardinality(G) <= MaxTreeFiles}}

CollectRoots == {"p", "/app/p", "p/src", "build/project", "."}

CollectExtensions == {None, Some(<<".py">>), Some(<<".txt", ".js">>)}

CollectInit ==
    /\ pc = "start"
    /\ input \in [kind : {"collect"}, root_path : CollectRoots, extensions : CollectExtensions]
    /\ output = <<>>
    /\ conversation_history = <<>>
    /\ current_codebase = <<>>
    /\ disk \in Trees
    /\ log_handler = FALSE
    /\ ext_imports = {}
    /\ last = NoLast

\* pipeline.collect_codebase(root_path, extensions)
Collect ==
    /\ pc = "start"
    /\ LET collected == collect_codebase(disk, input.root_path, input.extensions)
       IN  /\ output' = collected.codebase
           /\ Leave("collect_codebase", [NoArgs EXCEPT !.input_path = Some(input.root_path)],
                    Outcome(disk, log_handler, "", "", collected.events, <<>>, <<>>))
    /\ pc' = "done"
    /\ UNCHANGED <<input, conversation_history, current_codebase, ext_imports>>

CollectNext == Collect

SpecCollect == CollectInit /\ [][CollectNext]_vars

(***************************************************************************)
(* Properties of the inline-marker protocol (SpecInline)                   *)
(***************************************************************************)
InlineParsed == pc = "done" /\ input.kind = "reply"

InlineRoundTripped == pc = "done" /\ input.kind = "codebase"

\* no line of any content equals a marker line
InlineWellFormed(codebase) ==
    \A i \in DOMAIN codebase :
        \A j \in DOMAIN Split(codebase[i][2]) : ~inline_is_marker(Split(codebase[i][2])[j])

\* C1: for every codebase with unique paths whose content lines never equal a
\* marker line, parsing the formatted codebase returns the codebase itself:
\* the same paths, each with exactly its original content.
C1_InlineRoundTrip ==
    (InlineRoundTripped /\ InlineWellFormed(input.value))
        => Items(output.codebase) = Items(input.value)

\* the marker lines of a reply, the path each one captures and the body that
\* follows it
MarkerLines(lines) == {i \in DOMAIN lines : inline_is_marker(lines[i])}

CapturedPath(line) == Strip(SubSeq(line, 5, Len(line) - 4))

PathMarkers(lines) == {i \in MarkerLines(lines) : CapturedPath(lines[i]) # ""}

NextMarker(lines, i) ==
    IF \E j \in MarkerLines(lines) : j > i
    THEN CHOOSE j \in MarkerLines(lines) :
            j > i /\ \A k \in MarkerLines(lines) : k > i => j <= k
    ELSE Len(lines) + 1

MarkerBody(lines, i) == Strip(Join(SubSeq(lines, i + 1, NextMarker(lines, i) - 1)))

\* the last marker line that captures the path of marker line i
IsLastOfPath(lines, i) ==
    \A j \in PathMarkers(lines) :
        CapturedPath(lines[j]) = CapturedPath(lines[i]) => j <= i

\* C5 as stated: one entry per marker line with a non-empty path, keyed by the
\* captured path, holding the trimmed lines between that marker line and the
\* next one.
C5_EntryPerMarker ==
    InlineParsed =>
        LET lines == Split(input.value)
        IN  /\ Len(output.codebase) = Cardinality(PathMarkers(lines))
            /\ \A i \in PathMarkers(lines) :
                  <<CapturedPath(lines[i]), MarkerBody(lines, i)>> \in Items(output.codebase)

\* C5 (amended): the mapping has one entry per distinct non-empty captured
\* path; its content is the trimmed join of the lines strictly between the last
\* marker line with that path and the next marker line (or the end of the
\* reply); lines before the first marker line appear in no entry.
C5_EntryPerPath ==
    InlineParsed =>
        LET lines == Split(input.value)
        IN  Items(output.codebase) =
                {<<CapturedPath(lines[i]), MarkerBody(lines, i)>> :
                    i \in {m \in PathMarkers(lines) : IsLastOfPath(lines, m)}}

\* the multi-file reply parsed into its two files, the summary line in neither
C5_Witness ==
    /\ InlineParsed
    /\ input.value = InlineExample
    /\ output.codebase = << <<"a.py", "def f(): pass">>, <<"b.py", "def g(): pass">> >>

\* the marker lines whose path is empty or blank
EmptyMarkers(lines) == MarkerLines(lines) \ PathMarkers(lines)

\* C22: a marker line with an empty or blank path is rejected: no entry has
\* the empty key, every entry holds the lines of one marker line with a path
\* up to the next marker line, the rejected ones included (so the lines that
\* follow a rejected marker line are in no entry), and the file open before
\* a rejected marker line has its entry.
C22_EmptyPathRejected ==
    (InlineParsed /\ EmptyMarkers(Split(input.value)) # {}) =>
        LET lines == Split(input.value)
        IN  /\ "" \notin Keys(output.codebase)
            /\ \A e \in Items(output.codebase) :
                   \E i \in PathMarkers(lines) :
                       e = <<CapturedPath(lines[i]), MarkerBody(lines, i)>>
            /\ \A m \in EmptyMarkers(lines), i \in PathMarkers(lines) :
                   NextMarker(lines, i) = m => CapturedPath(lines[i]) \in Keys(output.codebase)

\* a file, then a marker line with a blank path, then a line: the file has
\* its entry and the line is in none
C22_Witness ==
    /\ InlineParsed
    /\ input.value = "=== a.py ===\n===  ===\n x "
    /\ output.codebase = << <<"a.py", "">> >>

\* the lines before the first marker line
FreeTextLines(lines) ==
    SubSeq(lines, 1, NextMarker(lines, 0) - 1)

\* C6: the inline-marker parser returns a pair (free_text, mapping) whose
\* free_text is the trimmed join of the lines before the first marker line
\* (the whole trimmed reply when there is no marker line).
C6_FreeText ==
    InlineParsed =>
        /\ "text_response" \in DOMAIN output
        /\ output.text_response = Strip(Join(FreeTextLines(Split(input.value))))

(***************************************************************************)
(* Properties of the begin/end protocol (SpecDelim)                        *)
(***************************************************************************)
DelimParsed == pc = "done" /\ input.kind = "reply"

DelimRoundTripped == pc = "done" /\ input.kind = "codebase"

\* no line of any content is identical to a delimiter
DelimWellFormed(codebase) ==
    \A i \in DOMAIN codebase :
        \A j \in DOMAIN Split(codebase[i][2]) :
            Split(codebase[i][2])[j] \notin {BEGIN_DELIMITER, END_DELIMITER}

\* C2: for every codebase with unique paths whose content has no line
\* identical to BEGIN_DELIMITER or END_DELIMITER, parsing the formatted
\* codebase returns the codebase itself, each content unchanged.
C2_DelimRoundTrip ==
    (DelimRoundTripped /\ DelimWellFormed(input.value))
        => Items(output.codebase) = Items(input.value)

\* a line the parser takes for a delimiter
IsDelimiterLine(line) ==
    StartsWith(Strip(line), BEGIN_DELIMITER) \/ StartsWith(Strip(line), END_DELIMITER)

\* C4: for every reply without a delimiter line the mapping is empty and the
\* free text is the whole reply, trimmed: no line of the reply is dropped.
C4_FreeTextOnly ==
    (DelimParsed /\ \A i \in DOMAIN Split(input.value) : ~IsDelimiterLine(Split(input.value)[i]))
        => /\ output.codebase = <<>>
           /\ output.text_response = Strip(input.value)

\* the lines of the parsed reply
ReplyLines == Split(input.value)

IsBeginLine(line) == StartsWith(Strip(line), BEGIN_DELIMITER)

IsEndLine(line) == ~IsBeginLine(line) /\ StartsWith(Strip(line), END_DELIMITER)

\* the delimiter lines before and after line b
DelimitersBefore(b) == {i \in 1..(b - 1) : IsDelimiterLine(ReplyLines[i])}

DelimitersAfter(b) == {i \in (b + 1)..Len(ReplyLines) : IsDelimiterLine(ReplyLines[i])}

Max(S) == CHOOSE x \in S : \A y \in S : y <= x

Min(S) == CHOOSE x \in S : \A y \in S : x <= y

\* the non-empty lines before line b
NonEmptyBefore(b) == {i \in 1..(b - 1) : Strip(ReplyLines[i]) # ""}

\* b is the BEGIN line of a block: it is not inside an open block, and the
\* block holds at least one line up to its END line or, when it is the last
\* one and not closed, up to the end of the reply
IsBlock(b) ==
    /\ IsBeginLine(ReplyLines[b])
    /\ DelimitersBefore(b) # {} => IsEndLine(ReplyLines[Max(DelimitersBefore(b))])
    /\ IF DelimitersAfter(b) = {} THEN b < Len(ReplyLines)
       ELSE /\ IsEndLine(ReplyLines[Min(DelimitersAfter(b))])
            /\ Min(DelimitersAfter(b)) > b + 1

\* the block at b has a filename line: the last non-empty line before it is
\* no delimiter line and looks like a path
IsNamed(b) ==
    /\ NonEmptyBefore(b) # {}
    /\ ~IsDelimiterLine(ReplyLines[Max(NonEmptyBefore(b))])
    /\ \/ Contains(Strip(ReplyLines[Max(NonEmptyBefore(b))]), ".")
       \/ Contains(Strip(ReplyLines[Max(NonEmptyBefore(b))]), "/")

BlockName(b) == Strip(ReplyLines[Max(NonEmptyBefore(b))])

NamedBlocks == {b \in DOMAIN ReplyLines : IsBlock(b) /\ IsNamed(b)}

\* C18: the path a block is stored under is the last non-empty line before
\* its BEGIN line: every named block's filename line is a key of the
\* mapping, and every key is the filename line of a block.
C18_PathIsLineBeforeBegin ==
    DelimParsed
        => /\ \A b \in NamedBlocks : BlockName(b) \in Keys(output.codebase)
           /\ \A k \in Keys(output.codebase) : \E b \in NamedBlocks : BlockName(b) = k

\* the delimiter lines of the reply pair up: every BEGIN line is followed by
\* an END line before any other delimiter line, and every END line follows
\* a BEGIN line
Balanced ==
    \A d \in DOMAIN ReplyLines :
        /\ IsBeginLine(ReplyLines[d])
              => /\ DelimitersAfter(d) # {}
                 /\ IsEndLine(ReplyLines[Min(DelimitersAfter(d))])
        /\ IsEndLine(ReplyLines[d])
              => /\ DelimitersBefore(d) # {}
                 /\ IsBeginLine(ReplyLines[Max(DelimitersBefore(d))])

\* the lines between the BEGIN line b and its END line
BlockContent(b) == Join(SubSeq(ReplyLines, b + 1, Min(DelimitersAfter(b)) - 1))

\* C23: the content of every returned entry is the lines between one BEGIN
\* line and its END line: no line of an earlier block without a filename is
\* put before it, and an empty block does not pass its filename on to the next
\* block.
C23_ContentIsOneBlock ==
    (DelimParsed /\ Balanced)
        => \A e \in Items(output.codebase) :
              \E b \in DOMAIN ReplyLines :
                  /\ IsBeginLine(ReplyLines[b])
                  /\ e[2] = BlockContent(b)
                  /\ \A a \in 1..(b - 1) :
                         (IsBlock(a) /\ IsNamed(a) /\ BlockName(a) = e[1])
                             => Min(DelimitersAfter(a)) > a + 1

(***************************************************************************)
(* Properties of the session (Spec)                                        *)
(***************************************************************************)
\* d.update(p): the entries of p laid over d
RECURSIVE Overridden(_, _)
Overridden(d, p) ==
    IF p = <<>> THEN d ELSE Overridden(DictSet(d, Head(p)[1], Head(p)[2]), Tail(p))

\* C3: after a chat whose reply parses to a non-empty mapping P, the current
\* codebase is the previous one overridden by P: the paths of P hold P's
\* content and every other path keeps its previous content.
C3_ChatMerges ==
    (last.op = "chat" /\ last.raised = "" /\ last.parsed # <<>>)
        => Items(current_codebase) = Items(Overridden(last.before.current_codebase, last.parsed))

\* an operation of the session has been called
Called(op) == last.op = op

HistoryBefore == last.before.conversation_history

\* C12: the history before every operation other than reset_conversation is
\* a prefix of the history after it: no turn is removed, reordered or edited.
C12_HistoryAppendOnly ==
    (last.op \notin {"none", "reset_conversation"})
        => IsPrefix(HistoryBefore, conversation_history)

\* a chat after a load: the two turns of the load are kept, two are added
C12_Witness ==
    /\ Called("chat")
    /\ last.raised = ""
    /\ Len(HistoryBefore) = 2
    /\ Len(conversation_history) = 4
    /\ SubSeq(conversation_history, 1, 2) = HistoryBefore
    /\ HistoryBefore[2] = Message("assistant", LOAD_ACK)

\* C13: a successful chat(message) sends the system turn followed by the
\* whole history with the new user turn last, and leaves the history grown by
\* that user turn and then the assistant turn holding the reply as it came.
C13_ChatSendsAndAppends ==
    (Called("chat") /\ last.raised = "")
        => /\ last.sent = <<Message("system", SYSTEM_PROMPT)>> \o HistoryBefore
                              \o <<Message("user", last.args.instruction)>>
           /\ conversation_history =
                  HistoryBefore \o <<Message("user", last.args.instruction),
                                      Message("assistant", last.args.llm.reply)>>

\* a chat after a load whose reply holds two file blocks: four turns were
\* sent, and the assistant turn holds the blocks, delimiters included
C13_Witness ==
    /\ Called("chat")
    /\ last.raised = ""
    /\ Len(HistoryBefore) = 2
    /\ Len(last.sent) = 4
    /\ last.parsed = << <<"b.py", "3">>, <<"c.py", "4">> >>
    /\ conversation_history[4].content =
           "Done\n" \o Block("b.py", "3") \o "\n" \o Block("c.py", "4")
    /\ last.ret = "Done"

\* C14: reset_conversation, called in any state, leaves the history and the
\* current codebase empty, as they are after construction.
C14_ResetClears ==
    Called("reset_conversation") => (conversation_history = <<>> /\ current_codebase = <<>>)

\* a reset of a session that held turns and a codebase
C14_Witness ==
    /\ Called("reset_conversation")
    /\ Len(HistoryBefore) = 4
    /\ last.before.current_codebase = << <<"b.py", "3">>, <<"c.py", "4">> >>
    /\ conversation_history = <<>>
    /\ current_codebase = <<>>

\* the mapping collect_codebase gave the last load_codebase
Collected == collect_codebase(last.before.disk, last.args.input_path[1], None).codebase

\* C15: load_codebase(root) sets the current codebase to the collected mapping
\* and appends exactly two turns: a user turn whose content holds
\* format_codebase of that mapping, then the assistant acknowledgment; it
\* makes no model call.
C15_LoadSeeds ==
    Called("load_codebase")
        => /\ current_codebase = Collected
           /\ Len(conversation_history) = Len(HistoryBefore) + 2
           /\ IsPrefix(HistoryBefore, conversation_history)
           /\ conversation_history[Len(HistoryBefore) + 1].role = "user"
           /\ EndsWith(conversation_history[Len(HistoryBefore) + 1].content,
                       format_codebase(Collected))
           /\ conversation_history[Len(HistoryBefore) + 2] = Message("assistant", LOAD_ACK)
           /\ \A i \in DOMAIN last.events : last.events[i].kind # "llm"
           /\ last.sent = <<>>

\* a load into a session that already held a chat: the two text files of the
\* tree are the codebase and are in the user turn
C15_Witness ==
    /\ Called("load_codebase")
    /\ Len(HistoryBefore) = 2
    /\ current_codebase = << <<"a.py", "1">>, <<"b.py", "2">> >>
    /\ conversation_history[3] =
           Message("user", LOAD_PREFIX \o Block("a.py", "1") \o "\n" \o Block("b.py", "2"))
    /\ conversation_history[4].role = "assistant"

\* C19: a chat whose reply parses to an empty mapping leaves the current
\* codebase as it was and returns the free text with the empty mapping.
C19_EmptyReplyKeepsCodebase ==
    (Called("chat") /\ last.raised = ""
        /\ parse_codebase_response(last.args.llm.reply).codebase = <<>>)
        => /\ current_codebase = last.before.current_codebase
           /\ last.ret = parse_codebase_response(last.args.llm.reply).text_response
           /\ last.parsed = <<>>

\* a chat about a loaded codebase answered in prose only
C19_Witness ==
    /\ Called("chat")
    /\ last.raised = ""
    /\ last.args.llm.reply = "No code changes needed"
    /\ last.ret = "No code changes needed"
    /\ last.parsed = <<>>
    /\ last.before.current_codebase = << <<"a.py", "1">>, <<"b.py", "2">> >>
    /\ current_codebase = << <<"a.py", "1">>, <<"b.py", "2">> >>

\* the prompt of a run: the instruction, the format request and the files
\* collected from input_path
RunPrompt ==
    last.args.instruction \o PROMPT_FORMAT
        \o format_codebase(collect_codebase(last.before.disk, last.args.input_path[1],
                                            None).codebase)

\* C20: run sends a fresh system and user pair that holds no turn of the
\* history, and leaves the history and the current codebase as they were,
\* whether it returns, writes files or raises.
C20_RunLeavesSession ==
    Called("run")
        => /\ conversation_history = HistoryBefore
           /\ current_codebase = last.before.current_codebase
           /\ last.sent = <<Message("system", SYSTEM_PROMPT), Message("user", RunPrompt)>>
           /\ \A i \in DOMAIN HistoryBefore, j \in DOMAIN last.sent :
                  last.sent[j] # HistoryBefore[i]

\* a run that wrote two files, in a session holding four turns and a codebase
C20_Witness ==
    /\ Called("run")
    /\ last.raised = ""
    /\ Len(HistoryBefore) = 4
    /\ last.before.current_codebase = << <<"a.py", "1">>, <<"b.py", "2">> >>
    /\ last.parsed = << <<"b.py", "3">>, <<"c.py", "4">> >>
    /\ \E i \in DOMAIN last.events : last.events[i].kind = "write_codebase"
    /\ Len(conversation_history) = 4
    /\ current_codebase = << <<"a.py", "1">>, <<"b.py", "2">> >>

\* the calls of the model in the last operation, and what it wrote
ModelCalls == {i \in DOMAIN last.events : last.events[i].kind = "llm"}

Writes == {i \in DOMAIN last.events : last.events[i].kind \in {"write", "mkdir"}}

\* the write at i comes after a call of the model that returned
AfterAnswer(i) == last.args.llm.ok /\ \E j \in ModelCalls : j < i

\* C21 as stated: run and chat call the model at most once, a failed call is
\* not repeated, and in run every file write comes after the call has returned.
C21_OneCallThenWrites ==
    (Called("run") \/ Called("chat"))
        => /\ Cardinality(ModelCalls) <= 1
           /\ \A i \in Writes : AfterAnswer(i)

\* C21 (amended): the same, the record that run appends to the query log
\* before the call excepted.
C21_OneCallThenOutputWrites ==
    (Called("run") \/ Called("chat"))
        => /\ Cardinality(ModelCalls) <= 1
           /\ \A i \in Writes :
                  last.events[i].path # Locate(PurePath(LOG_FILE)) => AfterAnswer(i)

\* a run whose call failed: one call, the error raised, the output tree as it
\* was, the query logged
C21_Witness ==
    /\ Called("run")
    /\ last.raised = "APIConnectionError"
    /\ Cardinality(ModelCalls) = 1
    /\ \A q \in DOMAIN disk \cup DOMAIN last.before.disk :
           IsPrefix(<<"app", "out">>, q)
               => q \in DOMAIN disk /\ q \in DOMAIN last.before.disk
                  /\ disk[q] = last.before.disk[q]
    /\ Locate(PurePath(LOG_FILE)) \in DOMAIN disk
    /\ Locate(PurePath(LOG_FILE)) \notin DOMAIN last.before.disk

\* C24: in every state the history alternates user, assistant, user,
\* assistant, ... and has even length: a chat whose call raises leaves no
\* user turn without its answer.
C24_HistoryAlternates ==
    /\ Len(conversation_history) % 2 = 0
    /\ \A i \in DOMAIN conversation_history :
           conversation_history[i].role = (IF i % 2 = 1 THEN "user" ELSE "assistant")

(***************************************************************************)
(* Properties of run and write_codebase (SpecRun)                          *)
(***************************************************************************)
RanOnce == pc = "done" /\ last.op \in {"run", "ext_run"}

PathsGiven == last.args.input_path # None /\ last.args.output_path # None

\* C7: run with input_path None (or output_path None) ends in ValueError, and
\* nothing touches the file system or calls the model before it is raised.
C7_FailFast ==
    (RanOnce /\ ~PathsGiven) => (last.raised = "ValueError" /\ last.events = <<>>)

\* C8: when the chat-completion call fails during run, run does not raise: it
\* returns the fixed explanatory message.
C8_CallFailureRecovered ==
    (RanOnce /\ PathsGiven /\ ~last.args.llm.ok)
        => (last.raised = "" /\ last.ret = NO_KEY_MESSAGE)

\* the node at a path, or "absent"
NodeAt(dsk, q) == IF q \in DOMAIN dsk THEN dsk[q] ELSE [kind |-> "absent"]

\* the paths that have a node before or after the last operation
Nodes == DOMAIN disk \cup DOMAIN last.before.disk

\* the node at a path before the last operation
NodeBefore(q) == NodeAt(last.before.disk, q)

OutputRoot == Locate(PurePath(last.args.output_path[1]))

InvokedWrite == \E i \in DOMAIN last.events : last.events[i].kind = "write_codebase"

\* a run whose model call succeeded: its reply was parsed
Parsed == RanOnce /\ PathsGiven /\ last.args.llm.ok

\* C9 as stated: write_codebase is invoked if and only if the parsed mapping
\* is not empty; with an empty mapping nothing under output_path is created or
\* modified, and run returns normally.
C9_WritesIffNonEmpty ==
    Parsed =>
        /\ InvokedWrite <=> last.parsed # <<>>
        /\ last.parsed = <<>> =>
              /\ last.raised = ""
              /\ \A q \in Nodes : IsPrefix(OutputRoot, q) => NodeAt(disk, q) = NodeBefore(q)

\* C9 (amended): the same, the query log that run of pipeline.py appends to in
\* the working directory excepted.
C9_WritesIffNonEmptyButLog ==
    Parsed =>
        /\ InvokedWrite <=> last.parsed # <<>>
        /\ last.parsed = <<>> =>
              /\ last.raised = ""
              /\ \A q \in Nodes \ {Locate(PurePath(LOG_FILE))} :
                    IsPrefix(OutputRoot, q) => NodeAt(disk, q) = NodeBefore(q)

\* a run whose reply held no file: it returned without invoking write_codebase,
\* and the output tree is as it was
C9_Witness ==
    /\ Parsed
    /\ last.op = "run"
    /\ last.args.output_path = Some("out")
    /\ last.args.llm.reply = "No code changes needed"
    /\ last.parsed = <<>>
    /\ last.raised = ""
    /\ ~InvokedWrite
    /\ NodeAt(disk, <<"app", "out", "a.py">>) = File("old")

\* the free text that parsing the reply of the last run gives
ParsedFreeText ==
    IF last.op = "run" THEN parse_codebase_response(last.args.llm.reply).text_response
    ELSE ext_parse_codebase_response(last.args.llm.reply).text_response

\* run of path/to/file.ext called with return_code false does not parse the
\* reply
FreeTextOfReply ==
    IF last.op = "ext_run" /\ ~last.args.return_code THEN last.args.llm.reply
    ELSE ParsedFreeText

\* C11 as stated: a run with both paths given whose model call succeeds
\* returns the free text obtained by parsing the reply, whether the parsed
\* mapping is empty or not.
C11_ReturnsFreeText == Parsed => (last.raised = "" /\ last.ret = ParsedFreeText)

\* C11 (amended): such a run raises only out of write_codebase, and when it
\* returns it returns the free text of the reply (the reply itself when
\* return_code is false).
C11_ReturnsFreeTextUnlessWriteRaises ==
    Parsed => /\ last.raised # "" => InvokedWrite
              /\ last.raised = "" => last.ret = FreeTextOfReply

\* a run that wrote a file and returned the sentence before the block
C11_Witness ==
    /\ Parsed
    /\ last.op = "run"
    /\ last.args.llm.reply = "Done\n" \o Block("x.py", "print(1)")
    /\ last.args.output_path = Some("out")
    /\ last.raised = ""
    /\ last.ret = "Done"
    /\ InvokedWrite
    /\ NodeAt(disk, <<"app", "out", "x.py">>) = File("print(1)")

Wrote == pc = "done" /\ last.op = "write_codebase"

\* the file an entry of the mapping names: output_root / file_path
Target(i) ==
    Locate(JoinPath(PurePath(last.args.output_path[1]),
                    PurePath(last.args.codebase[i][1])))

Targets == {Target(i) : i \in DOMAIN last.args.codebase}

\* every entry's file holds the entry's content, and every other file is as
\* it was before the call (a directory may have been created)
WrittenExactly ==
    /\ \A i \in DOMAIN last.args.codebase :
          NodeAt(disk, Target(i)) = File(last.args.codebase[i][2])
    /\ \A q \in Nodes \ Targets :
          \/ NodeAt(disk, q) = NodeBefore(q)
          \/ NodeAt(disk, q) = Dir /\ NodeBefore(q).kind = "absent"

\* C10 as stated: write_codebase leaves every entry's content in its file
\* output_root/path and every other file as it was.
C10_WriteAll == Wrote => WrittenExactly

\* C10 (amended): it does so when it returns without raising and no two
\* entries of the mapping name the same file.
C10_WriteAllWhenReturned ==
    (/\ Wrote
     /\ last.raised = ""
     /\ \A i, j \in DOMAIN last.args.codebase : Target(i) = Target(j) => i = j)
        => WrittenExactly

\* two files written below the output root, one over an old file and one in a
\* new directory, and the other file of the output tree untouched
C10_Witness ==
    /\ Wrote
    /\ last.raised = ""
    /\ last.args.output_path = Some("out")
    /\ last.args.codebase = << <<"a.py", "new">>, <<"sub/b.py", "b">> >>
    /\ NodeBefore(<<"app", "out", "a.py">>) = File("old")
    /\ NodeAt(disk, <<"app", "out", "a.py">>) = File("new")
    /\ NodeAt(disk, <<"app", "out", "sub", "b.py">>) = File("b")
    /\ NodeAt(disk, <<"app", "out", "keep.py">>) = File("keep")


\* C25: every file that write_codebase, called directly or by run, creates or
\* overwrites lies inside output_path, whatever paths the mapping holds.
C25_WritesInsideOutput ==
    (pc = "done" /\ last.op \in {"run", "ext_run", "write_codebase"}
        /\ last.args.output_path # None)
        => \A q \in Nodes \ {Locate(PurePath(LOG_FILE))} :
              (NodeAt(disk, q).kind = "file" /\ NodeAt(disk, q) # NodeBefore(q))
                  => IsPrefix(OutputRoot, q)

(***************************************************************************)
(* Properties of collect_codebase (SpecCollect)                            *)
(***************************************************************************)
CollectedOnce == pc = "done" /\ last.op = "collect_codebase"

Requested == IF input.extensions = None THEN DEFAULT_EXTS ELSE input.extensions[1]

CollectRoot == Locate(PurePath(input.root_path))

\* q lies below the root of the collection
Below(q) == IsPrefix(CollectRoot, q) /\ Len(q) > Len(CollectRoot)

\* q as seen from the root
Relative(q) == SubSeq(q, Len(CollectRoot) + 1, Len(q))

\* a directory between the root and q has an excluded name
UnderExcluded(q) ==
    \E i \in 1..(Len(Relative(q)) - 1) : Relative(q)[i] \in DEFAULT_DIRS

\* C16: collect_codebase returns no entry for a file that lies under a
\* directory with an excluded name, whatever its extension and depth.
C16_ExcludedNeverCollected ==
    CollectedOnce
        => \A q \in DOMAIN disk :
              (Below(q) /\ UnderExcluded(q)) => PathStr(Relative(q)) \notin Keys(output)

\* a tree with a file in p, one in p/build and one four directories down
\* under .git: the first alone is collected
C16_Witness ==
    /\ CollectedOnce
    /\ input.root_path = "p"
    /\ input.extensions = None
    /\ <<"app", "p", "build", "gen.py">> \in DOMAIN disk
    /\ <<"app", "p", "src", "deep", ".git", "hooks", "x.py">> \in DOMAIN disk
    /\ output = << <<"a.py", "1">> >>

\* a readable text file whose name ends with a requested extension
Wanted(q) ==
    /\ disk[q].kind = "file"
    /\ \E i \in DOMAIN Requested : EndsWith(q[Len(q)], Requested[i])

\* C17: collect_codebase returns an entry, keyed by the path relative to
\* root, for every readable text file below root whose name ends with a
\* requested extension and whose relative path has no excluded component,
\* whatever the root.
C17_CollectsEveryWanted ==
    CollectedOnce
        => \A q \in DOMAIN disk :
              (/\ Below(q)
               /\ Wanted(q)
               /\ \A i \in DOMAIN Relative(q) : Relative(q)[i] \notin DEFAULT_DIRS)
                  => <<PathStr(Relative(q)), disk[q].content>> \in Items(output)

====
